---- MODULE Spec2Model ----
(***************************************************************************)
(* Model of the typed-i18n core (createI18n, t, getFromPath, interpolate,  *)
(* setLocale, addModule, getLocales), of defineModule and its structural   *)
(* validator, of the type-level key derivation (Paths, ModuleKeys), of the *)
(* legacy engine and of the React provider's module registration, as state *)
(* machines over JavaScript values.                                        *)
(*                                                                         *)
(* Strings are sequences of one-character strings.  A JavaScript value is  *)
(* a record [k, s, n, p]: k is the kind, s the characters of a string (or  *)
(* the owner tag of a built-in function), n the number (1/0 for a boolean, *)
(* the arity of a function) and p the own properties of an object or array *)
(* in insertion order, each a record [key, val].                           *)
(***************************************************************************)
EXTENDS Integers, Sequences, FiniteSets, TLC

VARIABLES options, engines, key, params, parts, last, lastSet, orig, returned,
          twice, registered, argNamespace, argTranslations, argReference, warned,
          argModules, derived, argLocale, instance, loadedNamespaces, pending, addLog,
          binding, localeState, nextLocale, renderDue, shown,
          callerModules, modulesId

vars == <<options, engines, key, params, parts, last, lastSet, orig, returned,
          twice, registered, argNamespace, argTranslations, argReference, warned,
          argModules, derived, argLocale, instance, loadedNamespaces, pending, addLog,
          binding, localeState, nextLocale, renderDue, shown,
          callerModules, modulesId>>

\* The state of an engine and the inputs of its calls
coreVars == <<options, engines, key, params, parts, lastSet, orig, returned,
              twice, registered>>

\* The arguments of defineModule (argReference: the call names its Reference
\* type argument instead of leaving it inferred) and the console.warn calls
\* it made
defineVars == <<argNamespace, argTranslations, argReference, warned>>

\* The module collection type given to ModuleKeys and the set of string
\* literal types last derived from it
typeVars == <<argModules, derived>>

\* The locale argument of the legacy t
legacyVars == <<argLocale>>

\* The state of a mounted I18nProvider: its instance state, the set held by
\* loadedNamespacesRef, the setInstance updaters not yet run (each kept as
\* the modules object it closes over) and the modules it passed to addModule
reactVars == <<instance, loadedNamespaces, pending, addLog>>

\* The caller's options.modules object as it is now, and for each engine
\* the identity of the object its closure variable modules holds: 0 is the
\* caller's object, h the object created for the engine at handle h.
isoVars == <<callerModules, modulesId>>

\* What a binding shows: which binding is mounted ("react", "vue" or "none"),
\* the locale it exposes (the provider's committed locale state, or the
\* locale of the plugin's reactive state), the value the provider's next
\* render commits, whether a state change is waiting for a render, and the
\* text a consuming component rendered for key and params.
viewVars == <<binding, localeState, nextLocale, renderDue, shown>>

(***************************************************************************)
(* Bounds of the input universes.                                          *)
(***************************************************************************)
MaxSegs == 3

MaxParts == 3

MaxEngines == 2

MaxLocales == 3

MaxModules == 2

MaxPending == 2

(***************************************************************************)
(* String constants used by the code or by the JavaScript runtime.         *)
(***************************************************************************)
S_namespace == <<"n","a","m","e","s","p","a","c","e">>

S_translations == <<"t","r","a","n","s","l","a","t","i","o","n","s">>

S_toString == <<"t","o","S","t","r","i","n","g">>

S_length == <<"l","e","n","g","t","h">>

S_true == <<"t","r","u","e">>

S_false == <<"f","a","l","s","e">>

S_null == <<"n","u","l","l">>

S_undefined == <<"u","n","d","e","f","i","n","e","d">>

S_objectObject == <<"[","o","b","j","e","c","t"," ","O","b","j","e","c","t","]">>

S_nativeToString == <<"f","u","n","c","t","i","o","n"," ","t","o","S","t","r","i","n","g","(",")"," ","{"," ","[","n","a","t","i","v","e"," ","c","o","d","e","]"," ","}">>

Digits == <<"0","1","2","3","4","5","6","7","8","9">>

WhiteSpace == {" ", "\t", "\n"}

(***************************************************************************)
(* JavaScript values.                                                      *)
(***************************************************************************)
Undefined == [k |-> "undefined", s |-> <<>>, n |-> 0, p |-> <<>>]

Null == [k |-> "null", s |-> <<>>, n |-> 0, p |-> <<>>]

Str(s) == [k |-> "string", s |-> s, n |-> 0, p |-> <<>>]

Num(n) == [k |-> "number", s |-> <<>>, n |-> n, p |-> <<>>]

Bool(b) == [k |-> "boolean", s |-> <<>>, n |-> IF b THEN 1 ELSE 0, p |-> <<>>]

Obj(props) == [k |-> "object", s |-> <<>>, n |-> 0, p |-> props]

Arr(props) == [k |-> "array", s |-> <<>>, n |-> 0, p |-> props]

Fun(owner, arity) == [k |-> "function", s |-> owner, n |-> arity, p |-> <<>>]

Throw == [k |-> "throw", s |-> <<"T","y","p","e","E","r","r","o","r">>, n |-> 0, p |-> <<>>]

Prop(name, val) == [key |-> name, val |-> val]

IsNullish(v) == v.k \in {"undefined", "null"}

ToBoolean(v) ==
    CASE v.k \in {"undefined", "null"} -> FALSE
      [] v.k = "string" -> Len(v.s) > 0
      [] v.k = "number" -> v.n # 0
      [] v.k = "boolean" -> v.n = 1
      [] OTHER -> TRUE

(***************************************************************************)
(* String primitives: indexOf, slice, split, trim, number formatting.      *)
(***************************************************************************)
RECURSIVE IndexFrom(_, _, _)
IndexFrom(s, c, i) ==
    IF i > Len(s) THEN -1
    ELSE IF s[i] = c THEN i - 1
    ELSE IndexFrom(s, c, i + 1)

IndexOf(s, c) == IndexFrom(s, c, 1)

Slice(s, from, to) == SubSeq(s, from + 1, to)

RECURSIVE Split(_, _)
Split(s, c) ==
    LET i == IndexOf(s, c)
    IN  IF i = -1 THEN <<s>>
        ELSE <<Slice(s, 0, i)>> \o Split(Slice(s, i + 1, Len(s)), c)

RECURSIVE TrimStart(_)
TrimStart(s) ==
    IF s # <<>> /\ s[1] \in WhiteSpace THEN TrimStart(Tail(s)) ELSE s

RECURSIVE TrimEnd(_)
TrimEnd(s) ==
    IF s # <<>> /\ s[Len(s)] \in WhiteSpace THEN TrimEnd(SubSeq(s, 1, Len(s) - 1)) ELSE s

Trim(s) == TrimEnd(TrimStart(s))

RECURSIVE NatToStr(_)
NatToStr(n) ==
    IF n < 10 THEN <<Digits[n + 1]>>
    ELSE NatToStr(n \div 10) \o <<Digits[(n % 10) + 1]>>

NumToStr(n) == IF n < 0 THEN <<"-">> \o NatToStr(0 - n) ELSE NatToStr(n)

DigitValue(c) == CHOOSE d \in 0..9 : Digits[d + 1] = c

IsDigit(c) == \E d \in 1..10 : Digits[d] = c

RECURSIVE DecValue(_)
DecValue(s) ==
    IF s = <<>> THEN 0
    ELSE 10 * DecValue(SubSeq(s, 1, Len(s) - 1)) + DigitValue(s[Len(s)])

\* A canonical array index: decimal digits without a leading zero.
IsIndex(s) ==
    /\ s # <<>>
    /\ \A i \in 1..Len(s) : IsDigit(s[i])
    /\ (Len(s) > 1 => s[1] # "0")

(***************************************************************************)
(* Property access obj[name] as the runtime performs it: own properties    *)
(* first, then the prototype chain.  The property names that occur in the  *)
(* model are the names in Segs, Names and LocaleIds below, S_namespace and *)
(* S_translations; among them only "toString" and "length" name built-in   *)
(* properties, so the built-in tables list exactly those two.              *)
(***************************************************************************)
RECURSIVE OwnIndexFrom(_, _, _)
OwnIndexFrom(props, name, i) ==
    IF i > Len(props) THEN 0
    ELSE IF props[i].key = name THEN i
    ELSE OwnIndexFrom(props, name, i + 1)

OwnIndex(props, name) == OwnIndexFrom(props, name, 1)

HasOwn(v, name) == v.k \in {"object", "array"} /\ OwnIndex(v.p, name) # 0

\* Object.prototype[name]
ObjectProtoGet(name) ==
    IF name = S_toString THEN Fun(<<"O">>, 0) ELSE Undefined

\* v[name] for a value v that is neither null nor undefined
Get(v, name) ==
    CASE v.k = "object" ->
            IF OwnIndex(v.p, name) # 0 THEN v.p[OwnIndex(v.p, name)].val
            ELSE ObjectProtoGet(name)
      [] v.k = "array" ->
            IF OwnIndex(v.p, name) # 0 THEN v.p[OwnIndex(v.p, name)].val
            ELSE IF name = S_length THEN Num(Len(v.p))
            ELSE IF name = S_toString THEN Fun(<<"A">>, 0)
            ELSE ObjectProtoGet(name)
      [] v.k = "string" ->
            IF name = S_length THEN Num(Len(v.s))
            ELSE IF IsIndex(name) /\ DecValue(name) < Len(v.s)
                 THEN Str(<<v.s[DecValue(name) + 1]>>)
            ELSE IF name = S_toString THEN Fun(<<"S">>, 0)
            ELSE ObjectProtoGet(name)
      [] v.k = "number" ->
            IF name = S_toString THEN Fun(<<"N">>, 1) ELSE ObjectProtoGet(name)
      [] v.k = "boolean" ->
            IF name = S_toString THEN Fun(<<"B">>, 0) ELSE ObjectProtoGet(name)
      [] v.k = "function" ->
            IF name = S_length THEN Num(v.n)
            ELSE IF name = S_toString THEN Fun(<<"F">>, 0)
            ELSE ObjectProtoGet(name)
      [] OTHER -> Throw

\* v[name] for any v: reading a property of null or undefined is a TypeError
GetOrThrow(v, name) == IF IsNullish(v) \/ v.k = "throw" THEN Throw ELSE Get(v, name)

\* obj[name] = val on a plain object: overwrite in place or append
SetProp(obj, name, val) ==
    IF OwnIndex(obj.p, name) # 0
    THEN Obj([obj.p EXCEPT ![OwnIndex(obj.p, name)] = Prop(name, val)])
    ELSE Obj(Append(obj.p, Prop(name, val)))

(***************************************************************************)
(* String(value): null and undefined print their names, a plain object     *)
(* prints "[object Object]" through Object.prototype.toString unless an    *)
(* own "toString" property (never callable in JSON data) shadows it, in    *)
(* which case the conversion is a TypeError; an array joins its elements.  *)
(***************************************************************************)
RECURSIVE JsString(_)
RECURSIVE JoinElems(_, _)
JoinElems(props, i) ==
    IF i > Len(props) THEN Str(<<>>)
    ELSE LET e == props[i].val
             head == IF IsNullish(e) THEN Str(<<>>) ELSE JsString(e)
             rest == JoinElems(props, i + 1)
         IN  IF head.k = "throw" \/ rest.k = "throw" THEN Throw
             ELSE Str(head.s \o (IF i < Len(props) THEN <<",">> ELSE <<>>) \o rest.s)

JsString(v) ==
    CASE v.k = "string" -> v
      [] v.k = "number" -> Str(NumToStr(v.n))
      [] v.k = "boolean" -> Str(IF v.n = 1 THEN S_true ELSE S_false)
      [] v.k = "null" -> Str(S_null)
      [] v.k = "undefined" -> Str(S_undefined)
      [] v.k = "function" -> Str(S_nativeToString)
      [] v.k = "object" ->
            IF OwnIndex(v.p, S_toString) # 0 THEN Throw ELSE Str(S_objectObject)
      [] v.k = "array" -> JoinElems(v.p, 1)
      [] OTHER -> Throw

(***************************************************************************)
(* createI18n: getFromPath, interpolate, t, setLocale, addModule.          *)
(***************************************************************************)
RECURSIVE WalkParts(_, _, _)
WalkParts(cur, pathParts, i) ==
    IF i > Len(pathParts) THEN cur
    ELSE IF IsNullish(cur) THEN Undefined
    ELSE WalkParts(Get(cur, pathParts[i]), pathParts, i + 1)

getFromPath(obj, path) ==
    IF path = <<>> THEN Undefined
    ELSE WalkParts(obj, Split(path, "."), 1)

\* End (1-based index of the second closing brace) of a match of
\* /\{\{\s*([^}]+)\s*\}\}/ starting at position i, or 0 when none starts there.
MatchEnd(s, i) ==
    IF i + 1 > Len(s) \/ s[i] # "{" \/ s[i + 1] # "{" THEN 0
    ELSE LET j == IndexFrom(s, "}", i + 2) + 1
         IN  IF j = 0 \/ j < i + 3 \/ j + 1 > Len(s) THEN 0
             ELSE IF s[j + 1] # "}" THEN 0
             ELSE j + 1

RECURSIVE ReplaceFrom(_, _, _)
ReplaceFrom(s, ps, i) ==
    IF i > Len(s) THEN <<>>
    ELSE LET e == MatchEnd(s, i)
         IN  IF e = 0 THEN <<s[i]>> \o ReplaceFrom(s, ps, i + 1)
             ELSE LET v == Get(ps, Trim(SubSeq(s, i + 2, e - 2)))
                      r == IF IsNullish(v) THEN <<>> ELSE JsString(v).s
                  IN  r \o ReplaceFrom(s, ps, e + 1)

interpolate(template, ps) ==
    IF ~ToBoolean(ps) THEN template
    ELSE ReplaceFrom(template, ps, 1)

\* Variant of lines 291-303 that takes only undefined for not found
\* (value === undefined).
ResolveUndefinedOnly(engine, module, k, translationKey, ps) ==
    LET translations == Get(module, S_translations)
        first == GetOrThrow(translations, engine.currentLocale.s)
        value1 == IF first.k = "throw" THEN Throw
                  ELSE getFromPath(first, translationKey)
        useFallback == /\ value1 = Undefined
                       /\ ToBoolean(engine.fallbackLocale)
                       /\ engine.fallbackLocale # engine.currentLocale
        second == GetOrThrow(translations, engine.fallbackLocale.s)
        value == IF useFallback THEN getFromPath(second, translationKey) ELSE value1
    IN  IF value.k = "throw" THEN Throw
        ELSE IF value.k = "string" THEN Str(interpolate(value.s, ps))
        ELSE IF value = Undefined THEN Str(k)
        ELSE JsString(value)

\* Variant of lines 291-303 that asks the fallback locale first.
ResolveFallbackFirst(engine, module, k, translationKey, ps) ==
    LET translations == Get(module, S_translations)
        second == GetOrThrow(translations, engine.fallbackLocale.s)
        value2 == IF ToBoolean(engine.fallbackLocale) /\ second.k # "throw"
                  THEN getFromPath(second, translationKey)
                  ELSE Undefined
        first == GetOrThrow(translations, engine.currentLocale.s)
        value == IF ~IsNullish(value2) THEN value2
                 ELSE IF first.k = "throw" THEN Throw
                 ELSE getFromPath(first, translationKey)
    IN  IF value.k = "throw" THEN Throw
        ELSE IF value.k = "string" THEN Str(interpolate(value.s, ps))
        ELSE IF IsNullish(value) THEN Str(k)
        ELSE JsString(value)

\* Lines 291-303 of t, once a truthy module has been found.
Resolve(engine, module, k, translationKey, ps) ==
    LET translations == Get(module, S_translations)
        first == GetOrThrow(translations, engine.currentLocale.s)
        value1 == IF first.k = "throw" THEN Throw
                  ELSE getFromPath(first, translationKey)
        useFallback == /\ IsNullish(value1)
                       /\ ToBoolean(engine.fallbackLocale)
                       /\ engine.fallbackLocale # engine.currentLocale
        second == GetOrThrow(translations, engine.fallbackLocale.s)
        value == IF useFallback THEN getFromPath(second, translationKey) ELSE value1
    IN  IF value.k = "throw" THEN Throw
        ELSE IF value.k = "string" THEN Str(interpolate(value.s, ps))
        ELSE IF IsNullish(value) THEN Str(k)
        ELSE JsString(value)

t(engine, k, ps) ==
    LET firstDotIndex == IndexOf(k, ".")
    IN  IF firstDotIndex = -1 THEN Str(k)
        ELSE LET namespace == Slice(k, 0, firstDotIndex)
                 translationKey == Slice(k, firstDotIndex + 1, Len(k))
                 module == Get(engine.modules, namespace)
             IN  IF ~ToBoolean(module) THEN Str(k)
                 ELSE Resolve(engine, module, k, translationKey, ps)

getLocale(engine) == engine.currentLocale

\* Variant of setLocale that keeps the locale it replaces as the fallback.
setLocaleKeepingPrevious(engine, locale) ==
    [engine EXCEPT !.currentLocale = locale, !.fallbackLocale = engine.currentLocale]

\* Variant of setLocale that ignores a locale no registered module has data for.
setLocaleValidated(engine, locale) ==
    IF \E i \in 1..Len(engine.modules.p) :
           HasOwn(Get(engine.modules.p[i].val, S_translations), locale.s)
    THEN [engine EXCEPT !.currentLocale = locale]
    ELSE engine

setLocale(engine, locale) == [engine EXCEPT !.currentLocale = locale]

\* Object.keys and Object.values of a plain object: own properties in
\* insertion order (no property name of the model's objects is an array
\* index, which would be listed first).
ObjectKeys(v) == [i \in 1..Len(v.p) |-> v.p[i].key]

ObjectValues(v) == [i \in 1..Len(v.p) |-> v.p[i].val]

\* Set.prototype.add on a Set kept as the sequence of its members in
\* insertion order.
SetAdd(set, x) ==
    IF \E i \in 1..Len(set) : set[i] = x THEN set ELSE Append(set, x)

RECURSIVE AddLocales(_, _, _)
AddLocales(set, locales, j) ==
    IF j > Len(locales) THEN set
    ELSE AddLocales(SetAdd(set, locales[j]), locales, j + 1)

RECURSIVE CollectLocales(_, _, _)
CollectLocales(set, mods, i) ==
    IF i > Len(mods) THEN set
    ELSE CollectLocales(
             AddLocales(set, ObjectKeys(Get(mods[i], S_translations)), 1), mods, i + 1)

\* Array.from of a Set of strings
ArrayFrom(set) == Arr([i \in 1..Len(set) |-> Prop(NatToStr(i - 1), Str(set[i]))])

getLocales(engine) ==
    ArrayFrom(CollectLocales(<<>>, ObjectValues(engine.modules), 1))

\* The object the closure variable modules of the engine at handle h holds.
\* Variant: the caller's object itself (modules = options.modules).
CallerObject(h) == 0

\* Line 258: { ...options.modules } is an object of its own.
SpreadObject(h) == h

createI18n(opts) ==
    [currentLocale |-> opts.locale,
     fallbackLocale |-> opts.fallbackLocale,
     modules |-> Obj(opts.modules.p)]

\* Variant of addModule that returns a new engine object and leaves the
\* engine it was called on untouched.
addModuleCopy(heap, e, module) ==
    IF Len(heap) >= MaxEngines
    THEN [heap |-> [heap EXCEPT ![e].modules =
                        SetProp(heap[e].modules, Get(module, S_namespace).s, module)],
          ret |-> e]
    ELSE [heap |-> Append(heap, [heap[e] EXCEPT !.modules =
                        SetProp(heap[e].modules, Get(module, S_namespace).s, module)]),
          ret |-> Len(heap) + 1]

\* Variant of addModule in which the first registration of a namespace wins.
addModuleKeepFirst(heap, e, module) ==
    IF HasOwn(heap[e].modules, Get(module, S_namespace).s)
    THEN [heap |-> heap, ret |-> e]
    ELSE [heap |-> [heap EXCEPT ![e].modules =
                        SetProp(heap[e].modules, Get(module, S_namespace).s, module)],
          ret |-> e]

\* Variant of addModule in which registering a namespace that is already
\* registered unregisters it.
addModuleToggle(heap, e, module) ==
    IF HasOwn(heap[e].modules, Get(module, S_namespace).s)
    THEN [heap |-> [heap EXCEPT ![e].modules =
                        Obj(SelectSeq(heap[e].modules.p,
                                      LAMBDA pr : pr.key # Get(module, S_namespace).s))],
          ret |-> e]
    ELSE [heap |-> [heap EXCEPT ![e].modules =
                        SetProp(heap[e].modules, Get(module, S_namespace).s, module)],
          ret |-> e]

\* addModule on the engine at handle e of the heap: the module is stored
\* under its namespace and the engine's own handle is returned.
addModule(heap, e, module) ==
    [heap |-> [heap EXCEPT ![e].modules =
                   SetProp(heap[e].modules, Get(module, S_namespace).s, module)],
     ret |-> e]

(***************************************************************************)
(* createI18nLegacy: its own getFromPath and interpolate, and t.           *)
(***************************************************************************)
legacyGetFromPath(obj, path) ==
    IF path = <<>> THEN Undefined
    ELSE WalkParts(obj, Split(path, "."), 1)

legacyInterpolate(template, ps) ==
    IF ~ToBoolean(ps) THEN template
    ELSE ReplaceFrom(template, ps, 1)

\* t(locale, key, params) of the object createI18nLegacy(trans) returns
legacyT(trans, locale, k, ps) ==
    LET seg == legacyGetFromPath(Get(trans, locale), k)
    IN  IF seg.k = "string" THEN Str(legacyInterpolate(seg.s, ps))
        ELSE IF IsNullish(seg) THEN Str(k)
        ELSE JsString(seg)

(***************************************************************************)
(* defineModule's result and the data the model draws its inputs from.     *)
(***************************************************************************)
Module(namespace, translations) ==
    Obj(<<Prop(S_namespace, Str(namespace)), Prop(S_translations, translations)>>)

L_en == <<"e","n">>

L_fr == <<"f","r">>

L_de == <<"d","e">>

N_a == <<"a">>

N_b == <<"b">>

N_n == <<"n">>

N_c == <<"c">>

\* "Hi {{n}}", "Yo {{n}}", "{{ c }}x", "{{c}}y", "Tag {{n}}"
T_hi == <<"H","i"," ","{","{","n","}","}">>

T_yo == <<"Y","o"," ","{","{","n","}","}">>

T_cx == <<"{","{"," ","c"," ","}","}","x">>

T_cy == <<"{","{","c","}","}","y">>

T_tag == <<"T","a","g"," ","{","{","n","}","}">>

ModA ==
    Module(N_a, Obj(<<
        Prop(L_en, Obj(<<Prop(N_a, Str(T_hi)),
                         Prop(N_b, Obj(<<Prop(N_a, Str(T_cx)),
                                         Prop(N_b, Num(7)),
                                         Prop(S_toString, Str(<<"T">>))>>))>>)),
        Prop(L_fr, Obj(<<Prop(N_a, Str(T_yo)),
                         Prop(N_b, Obj(<<Prop(N_a, Str(T_cy))>>))>>))>>))

ModA2 ==
    Module(N_a, Obj(<<
        Prop(L_en, Obj(<<Prop(N_a, Str(<<"H","e","y">>))>>)),
        Prop(L_de, Obj(<<Prop(N_a, Str(T_tag))>>))>>))

ModB ==
    Module(N_b, Obj(<<
        Prop(L_en, Obj(<<Prop(N_a, Str(<<"O","K">>)),
                         Prop(N_b, Arr(<<Prop(<<"0">>, Str(<<"p">>)),
                                         Prop(<<"1">>, Num(1))>>))>>)),
        Prop(L_de, Obj(<<Prop(N_a, Null), Prop(N_b, Bool(TRUE))>>))>>))

ModuleUniverse == {ModA, ModA2, ModB}

LocaleIds == {L_en, L_fr, L_de}

\* The third options object passes a module under a property name that is
\* not its namespace, as examples/basic/example.ts does.
OptionsUniverse ==
    { [locale |-> Str(L_en), fallbackLocale |-> Undefined,
       modules |-> Obj(<<Prop(N_a, ModA)>>)],
      [locale |-> Str(L_de), fallbackLocale |-> Str(L_en),
       modules |-> Obj(<<Prop(N_a, ModA), Prop(N_b, ModB)>>)],
      [locale |-> Str(L_fr), fallbackLocale |-> Str(L_en),
       modules |-> Obj(<<Prop(N_b, ModA)>>)] }

ParamsUniverse ==
    { Undefined,
      Obj(<<Prop(N_n, Str(<<"B","o">>)), Prop(N_c, Num(3))>>) }

Segs == {N_a, N_b, S_toString}

\* Keys with an empty segment: "", "a.", ".a" and "a..a"
EmptySegKeys == { << <<>> >>, <<N_a, <<>>>>, << <<>>, N_a>>, <<N_a, <<>>, N_a>> }

\* Keys that name the built-in "length": of a string leaf, of an array leaf,
\* as a namespace and as a key without a dot.
LengthKeys ==
    { <<N_a, N_a, S_length>>, <<N_b, N_b, S_length>>, <<N_a, S_length>>,
      <<S_length, N_a>>, <<S_length>> }

RECURSIVE Join(_, _)
Join(segs, sep) ==
    IF Len(segs) = 0 THEN <<>>
    ELSE IF Len(segs) = 1 THEN segs[1]
    ELSE segs[1] \o <<sep>> \o Join(Tail(segs), sep)

SeqsUpTo(S, n) == UNION {[1..m -> S] : m \in 0..n}

Keys ==
    {Join(segs, ".") :
        segs \in (SeqsUpTo(Segs, MaxSegs) \ {<<>>}) \cup LengthKeys \cup EmptySegKeys}

\* Template parts: literal text, or a placeholder {{<pre><name><post>}}.
TextPart(s) == [kind |-> "text", s |-> s, pre |-> <<>>, post |-> <<>>]

Placeholder(name, pre, post) == [kind |-> "ph", s |-> name, pre |-> pre, post |-> post]

PartUniverse ==
    { TextPart(<<"H","i"," ">>),
      TextPart(<<"{","x","}">>),
      Placeholder(N_n, <<>>, <<>>),
      Placeholder(N_n, <<" ">>, <<" ", " ">>),
      Placeholder(N_c, <<>>, <<" ">>),
      Placeholder(<<"x">>, <<>>, <<>>),
      Placeholder(S_toString, <<>>, <<>>) }

RenderPart(part) ==
    IF part.kind = "text" THEN part.s
    ELSE <<"{", "{">> \o part.pre \o part.s \o part.post \o <<"}", "}">>

RECURSIVE Render(_)
Render(ps) == IF ps = <<>> THEN <<>> ELSE RenderPart(Head(ps)) \o Render(Tail(ps))

InterpParamsUniverse ==
    { Obj(<<>>),
      Obj(<<Prop(N_n, Str(<<"B","o">>))>>),
      Obj(<<Prop(N_n, Num(0)), Prop(N_c, Num(3))>>),
      Obj(<<Prop(N_n, Bool(FALSE)), Prop(N_c, Bool(TRUE))>>),
      Undefined }

(***************************************************************************)
(* defineModule and its structural validator compareStructure.  A warning  *)
(* passed to console.warn is kept as the record of the values its template *)
(* interpolates: the namespace, the two locale names and the list of       *)
(* errors in the order they were pushed.                                   *)
(***************************************************************************)
S_missing == <<"M","i","s","s","i","n","g"," ","k","e","y"," ","i","n"," ","l","o","c","a","l","e",":"," ">>

S_extra == <<"E","x","t","r","a"," ","k","e","y"," ","i","n"," ","l","o","c","a","l","e",":"," ">>

\* typeof v === "object" && v !== null && !Array.isArray(v)
IsPlainObject(v) == v.k = "object"

\* Object.keys(obj || {})
KeysOrEmpty(v) ==
    IF ~ToBoolean(v) THEN <<>>
    ELSE IF v.k \in {"object", "array"} THEN ObjectKeys(v)
    ELSE IF v.k = "string" THEN [i \in 1..Len(v.s) |-> NatToStr(i - 1)]
    ELSE <<>>

\* Set.prototype.has
SetHas(set, x) == \E i \in 1..Len(set) : set[i] = x

\* Variant of compareStructure that also descends into arrays.
RECURSIVE compareStructureArrays(_, _, _)
compareStructureArrays(obj1, obj2, path) ==
    LET keys1 == KeysOrEmpty(obj1)
        keys2 == KeysOrEmpty(obj2)
        RECURSIVE Missing(_)
        Missing(i) ==
            IF i > Len(keys1) THEN <<>>
            ELSE LET k == keys1[i]
                 IN  (IF ~SetHas(keys2, k) THEN <<S_missing \o path \o k>>
                      ELSE IF Get(obj1, k).k \in {"object", "array"}
                              /\ Get(obj2, k).k \in {"object", "array"}
                           THEN compareStructureArrays(Get(obj1, k), Get(obj2, k),
                                                       path \o k \o <<".">>)
                      ELSE <<>>) \o Missing(i + 1)
        RECURSIVE Extra(_)
        Extra(i) ==
            IF i > Len(keys2) THEN <<>>
            ELSE (IF ~SetHas(keys1, keys2[i]) THEN <<S_extra \o path \o keys2[i]>>
                  ELSE <<>>) \o Extra(i + 1)
    IN  Missing(1) \o Extra(1)

\* Variant of compareStructure that also requires the keys in the same order.
RECURSIVE compareStructureOrdered(_, _, _)
compareStructureOrdered(obj1, obj2, path) ==
    LET keys1 == KeysOrEmpty(obj1)
        keys2 == KeysOrEmpty(obj2)
        RECURSIVE Missing(_)
        Missing(i) ==
            IF i > Len(keys1) THEN <<>>
            ELSE LET k == keys1[i]
                 IN  (IF i > Len(keys2) \/ keys2[i] # k THEN <<S_missing \o path \o k>>
                      ELSE IF IsPlainObject(Get(obj1, k)) /\ IsPlainObject(Get(obj2, k))
                           THEN compareStructureOrdered(Get(obj1, k), Get(obj2, k),
                                                        path \o k \o <<".">>)
                      ELSE <<>>) \o Missing(i + 1)
        RECURSIVE Extra(_)
        Extra(i) ==
            IF i > Len(keys2) THEN <<>>
            ELSE (IF ~SetHas(keys1, keys2[i]) THEN <<S_extra \o path \o keys2[i]>>
                  ELSE <<>>) \o Extra(i + 1)
    IN  Missing(1) \o Extra(1)

RECURSIVE compareStructure(_, _, _)
compareStructure(obj1, obj2, path) ==
    LET keys1 == KeysOrEmpty(obj1)
        keys2 == KeysOrEmpty(obj2)
        RECURSIVE Missing(_)
        Missing(i) ==
            IF i > Len(keys1) THEN <<>>
            ELSE LET k == keys1[i]
                 IN  (IF ~SetHas(keys2, k) THEN <<S_missing \o path \o k>>
                      ELSE IF IsPlainObject(Get(obj1, k)) /\ IsPlainObject(Get(obj2, k))
                           THEN compareStructure(Get(obj1, k), Get(obj2, k),
                                                 path \o k \o <<".">>)
                      ELSE <<>>) \o Missing(i + 1)
        RECURSIVE Extra(_)
        Extra(i) ==
            IF i > Len(keys2) THEN <<>>
            ELSE (IF ~SetHas(keys1, keys2[i]) THEN <<S_extra \o path \o keys2[i]>>
                  ELSE <<>>) \o Extra(i + 1)
    IN  Missing(1) \o Extra(1)

Warning(namespace, referenceLocale, currentLocale, errors) ==
    [namespace |-> namespace, referenceLocale |-> referenceLocale,
     currentLocale |-> currentLocale, errors |-> errors]

\* Variant of the loop without the break: one warning per diverging locale.
RECURSIVE WarnLoopAll(_, _, _, _)
WarnLoopAll(namespace, locales, values, i) ==
    IF i > Len(locales) THEN <<>>
    ELSE LET errors == compareStructure(values[1], values[i], <<>>)
         IN  (IF Len(errors) > 0
              THEN <<Warning(namespace, locales[1], locales[i], errors)>>
              ELSE <<>>) \o WarnLoopAll(namespace, locales, values, i + 1)

\* The for loop over locales[1..]: the console.warn calls it makes.
RECURSIVE WarnLoop(_, _, _, _)
WarnLoop(namespace, locales, values, i) ==
    IF i > Len(locales) THEN <<>>
    ELSE LET errors == compareStructure(values[1], values[i], <<>>)
         IN  IF Len(errors) > 0
             THEN <<Warning(namespace, locales[1], locales[i], errors)>>
             ELSE WarnLoop(namespace, locales, values, i + 1)

\* Variant of defineModule that drops the locales that diverge from the
\* reference.
defineModuleStrict(namespace, translations) ==
    LET locales == ObjectKeys(translations)
        values == ObjectValues(translations)
    IN  [ret |-> Module(namespace,
                        Obj(SelectSeq(translations.p,
                                      LAMBDA pr : compareStructure(values[1], pr.val, <<>>)
                                                  = <<>>))),
         warn |-> IF Len(locales) > 1 THEN WarnLoop(namespace, locales, values, 2)
                  ELSE <<>>]

\* defineModule(namespace)(translations): the module returned and the
\* console.warn calls made.
defineModule(namespace, translations) ==
    LET locales == ObjectKeys(translations)
        values == ObjectValues(translations)
    IN  [ret |-> Module(namespace, translations),
         warn |-> IF Len(locales) > 1 THEN WarnLoop(namespace, locales, values, 2)
                  ELSE <<>>]

(***************************************************************************)
(* Locale trees and translations mappings defineModule is applied to.      *)
(***************************************************************************)
L_es == <<"e","s">>

L_it == <<"i","t">>

L_pt == <<"p","t">>

\* The locale names of a translations mapping, in declaration order.
LocaleNames == <<L_en, L_fr, L_de, L_es, L_it, L_pt>>

X == Str(<<"x">>)

\* {a, b: {a, b: {a}}}, the tree the others are variations of
Tree_base ==
    Obj(<<Prop(N_a, X),
          Prop(N_b, Obj(<<Prop(N_a, X), Prop(N_b, Obj(<<Prop(N_a, X)>>))>>))>>)

\* the same keys in another order, with leaves of other types
Tree_reordered ==
    Obj(<<Prop(N_b, Obj(<<Prop(N_b, Obj(<<Prop(N_a, Num(1))>>)), Prop(N_a, Null)>>)),
          Prop(N_a, Arr(<<Prop(<<"0">>, X)>>))>>)

\* {a}
Tree_noB == Obj(<<Prop(N_a, X)>>)

\* {a, b: {a}}
Tree_noBB == Obj(<<Prop(N_a, X), Prop(N_b, Obj(<<Prop(N_a, X)>>))>>)

\* {a, b: {a, b: {}}}
Tree_noBBA ==
    Obj(<<Prop(N_a, X), Prop(N_b, Obj(<<Prop(N_a, X), Prop(N_b, Obj(<<>>))>>))>>)

\* {a, b: {a, b: {a, c}}}
Tree_extraBBC ==
    Obj(<<Prop(N_a, X),
          Prop(N_b, Obj(<<Prop(N_a, X),
                          Prop(N_b, Obj(<<Prop(N_a, X), Prop(N_c, X)>>))>>))>>)

\* {a, b: "x"}, {a, b: ["x", "x"]}, {a, b: null}: b is not an object
Tree_leafB == Obj(<<Prop(N_a, X), Prop(N_b, X)>>)

Tree_arrayB ==
    Obj(<<Prop(N_a, X), Prop(N_b, Arr(<<Prop(<<"0">>, X), Prop(<<"1">>, X)>>))>>)

Tree_nullB == Obj(<<Prop(N_a, X), Prop(N_b, Null)>>)

\* {c, b: {c, a}, a: {a}}: c is new at two levels and a is an object
Tree_extraC ==
    Obj(<<Prop(N_c, X),
          Prop(N_b, Obj(<<Prop(N_c, X), Prop(N_a, X)>>)),
          Prop(N_a, Obj(<<Prop(N_a, X)>>))>>)

Tree_empty == Obj(<<>>)

\* The last member is a locale declared with null in place of a tree.
TreeUniverse ==
    { Tree_base, Tree_reordered, Tree_noB, Tree_noBB, Tree_noBBA, Tree_extraBBC,
      Tree_leafB, Tree_arrayB, Tree_nullB, Tree_extraC, Tree_empty, Null }

\* The mapping that declares the trees under LocaleNames, in order.
Translations(trees) == Obj([i \in 1..Len(trees) |-> Prop(LocaleNames[i], trees[i])])

TranslationsUniverse == {Translations(trees) : trees \in SeqsUpTo(TreeUniverse, MaxLocales)}

(***************************************************************************)
(* The type-level key derivation: IsRecord, Join, Prev, _Paths, Paths and  *)
(* ModuleKeys, computed on shapes.  A reference shape is written as a tree *)
(* whose leaves stand for their types; a union of string literal types is  *)
(* the set of its members and never is the empty set.                      *)
(***************************************************************************)
PathsDepth == 9

\* The depth type never, which Prev[0] is
NeverDepth == -1

Prev == <<NeverDepth, 0, 1, 2, 3, 4, 5, 6, 7, 8, 9>>

\* T extends Record<string, any>: every type that is not primitive
IsRecord(T) == T.k \in {"object", "array"}

\* T extends Record<string, infer V>: object types; an array type has no
\* string index signature to infer V from
ExtendsRecordInfer(T) == T.k = "object"

\* `${K & string}${"" extends P ? "" : "."}${P & string}`
JoinPath(K, P) ==
    {K \o (IF <<>> \in P THEN <<>> ELSE <<".">>) \o sub : sub \in P}

\* _Paths<T, D>
RECURSIVE _Paths(_, _)
_Paths(T, D) ==
    IF D = NeverDepth THEN {}
    ELSE IF ExtendsRecordInfer(T)
    THEN UNION {IF IsRecord(T.p[i].val)
                THEN {T.p[i].key} \cup JoinPath(T.p[i].key, _Paths(T.p[i].val, Prev[D + 1]))
                ELSE {T.p[i].key} : i \in 1..Len(T.p)}
    ELSE {<<>>}

Paths(T) == _Paths(T, PathsDepth)

\* An entry of TModules: the property the module is declared under and the
\* type arguments of its I18nModule<NS, Reference>
ModuleType(prop, NS, Reference) == [prop |-> prop, NS |-> NS, Reference |-> Reference]

\* Variant of ModuleKeys that qualifies the paths by the property name.
ModuleKeysByProp(TModules) ==
    UNION {{TModules[i].prop \o <<".">> \o path : path \in Paths(TModules[i].Reference)} :
           i \in 1..Len(TModules)}

ModuleKeys(TModules) ==
    UNION {{TModules[i].NS \o <<".">> \o path : path \in Paths(TModules[i].Reference)} :
           i \in 1..Len(TModules)}

\* a: {a: {a: ... "x"}} nested n levels deep
RECURSIVE Chain(_)
Chain(n) == IF n = 0 THEN X ELSE Obj(<<Prop(N_a, Chain(n - 1))>>)

Tree_deep == Chain(PathsDepth + 2)

ShapeUniverse == (TreeUniverse \ {Null}) \cup {Tree_deep}

PropNames == <<N_a, N_b, N_c, N_n>>

ModulesTypeUniverse ==
    UNION {{[i \in 1..n |-> ModuleType(PropNames[i], ms[i].NS, ms[i].Reference)] :
               ms \in [1..n -> [NS : {N_a, N_b}, Reference : ShapeUniverse]]} :
           n \in 0..MaxModules}

(***************************************************************************)
(* I18nProvider of the React binding: registerModules and the updater it   *)
(* passes to setInstance.  A run of the updater works on the heap of       *)
(* engines, the Set of loadedNamespacesRef and the log of addModule calls. *)
(***************************************************************************)
\* Variant of NamespaceLoaded that never finds a namespace.
NamespaceLoadedNever(loaded, module) == FALSE

\* loadedNamespacesRef.current.has(module.namespace)
NamespaceLoaded(loaded, module) == Get(module, S_namespace).s \in loaded

\* The for loop of the updater over Object.values(modules)
RECURSIVE UpdaterLoop(_, _, _)
UpdaterLoop(st, values, i) ==
    IF i > Len(values) THEN st
    ELSE IF NamespaceLoaded(st.loaded, values[i]) THEN UpdaterLoop(st, values, i + 1)
    ELSE UpdaterLoop([heap |-> addModule(st.heap, st.next, values[i]).heap,
                      loaded |-> st.loaded \cup {Get(values[i], S_namespace).s},
                      log |-> Append(st.log, values[i]),
                      next |-> addModule(st.heap, st.next, values[i]).ret,
                      changed |-> TRUE],
                     values, i + 1)

\* (current) => { ... return changed ? next : current }
updater(heap, loaded, log, current, modules) ==
    LET st == UpdaterLoop([heap |-> heap, loaded |-> loaded, log |-> log,
                           next |-> current, changed |-> FALSE],
                          ObjectValues(modules), 1)
    IN  [heap |-> st.heap, loaded |-> st.loaded, log |-> st.log,
         ret |-> IF st.changed THEN st.next ELSE current]

\* The modules objects components pass to useTranslation; the last one
\* holds two modules of one namespace.
\* setLocale of the provider's context value
reactSetLocaleStateOnly(heap, inst, newLocale) ==
    [heap |-> heap, state |-> newLocale]

reactSetLocale(heap, inst, newLocale) ==
    [heap  |-> [heap EXCEPT ![inst] = setLocale(heap[inst], newLocale)],
     state |-> newLocale]

\* setLocale of the object useI18n() of the Vue plugin returns
vueSetLocale(heap, i18n, locale) ==
    [heap  |-> [heap EXCEPT ![i18n] = setLocale(heap[i18n], locale)],
     state |-> locale]

\* The keys the consuming component renders: "a.a" and "b.a"
ShownKeys == {<<"a", ".", "a">>, <<"b", ".", "a">>}

\* The locales the provider's components switch to, and the module lists
\* they pass to useTranslation
ViewLocales == {L_en, L_fr}

ViewMods == {Obj(<<Prop(N_b, ModB)>>), Obj(<<Prop(N_a, ModA2)>>)}

ModsUniverse ==
    { Undefined,
      Obj(<<Prop(N_b, ModB)>>),
      Obj(<<Prop(N_a, ModA2), Prop(N_b, ModB)>>),
      Obj(<<Prop(N_a, ModA)>>),
      Obj(<<Prop(N_n, ModA2), Prop(N_c, ModA)>>) }

(***************************************************************************)
(* State machine.  engines is the heap of engine objects, a handle is an   *)
(* index into it; orig is the handle createI18n returned and returned the  *)
(* handle the last addModule returned (0 before any).  key, params and     *)
(* parts are the inputs under test, drawn at Init.  last records the last  *)
(* call and its result, lastSet the argument of the last setLocale.        *)
(* twice tells that the last call was an addModule with the module and the *)
(* engine of the call before it.  registered is the set of modules passed  *)
(* to createI18n or addModule so far, the last one of each namespace.      *)
(***************************************************************************)
NoCall == [op |-> "none", self |-> 0, arg |-> Undefined, result |-> Undefined]

Call(op, self, arg, result) == [op |-> op, self |-> self, arg |-> arg, result |-> result]

Handles == {orig, returned} \ {0}

Init ==
    /\ options \in OptionsUniverse
    /\ engines = <<createI18n(options)>>
    /\ key \in Keys
    /\ params \in ParamsUniverse
    /\ parts = <<>>
    /\ last = NoCall
    /\ lastSet = Undefined
    /\ orig = 1
    /\ returned = 0
    /\ twice = FALSE
    /\ registered = {options.modules.p[i].val : i \in 1..Len(options.modules.p)}
    /\ argNamespace = <<>>
    /\ argReference = FALSE
    /\ argTranslations = Obj(<<>>)
    /\ warned = <<>>
    /\ argModules = <<>>
    /\ derived = {}
    /\ argLocale = <<>>
    /\ instance = 1
    /\ loadedNamespaces = {}
    /\ pending = <<>>
    /\ addLog = <<>>
    /\ binding = "none"
    /\ localeState = Undefined
    /\ nextLocale = Undefined
    /\ renderDue = FALSE
    /\ shown = Undefined
    /\ callerModules = Undefined
    /\ modulesId = <<>>

T(h) ==
    /\ last' = Call("t", h, Str(key), t(engines[h], key, params))
    /\ twice' = FALSE
    /\ UNCHANGED <<options, engines, key, params, parts, lastSet, orig, returned,
                   registered>>
    /\ UNCHANGED <<defineVars, typeVars, legacyVars, isoVars, reactVars, viewVars>>

GetLocale(h) ==
    /\ last' = Call("getLocale", h, Undefined, getLocale(engines[h]))
    /\ twice' = FALSE
    /\ UNCHANGED <<options, engines, key, params, parts, lastSet, orig, returned,
                   registered>>
    /\ UNCHANGED <<defineVars, typeVars, legacyVars, isoVars, reactVars, viewVars>>

GetLocales(h) ==
    /\ last' = Call("getLocales", h, Undefined, getLocales(engines[h]))
    /\ twice' = FALSE
    /\ UNCHANGED <<options, engines, key, params, parts, lastSet, orig, returned,
                   registered>>
    /\ UNCHANGED <<defineVars, typeVars, legacyVars, isoVars, reactVars, viewVars>>

SetLocale(h, locale) ==
    /\ engines' = [engines EXCEPT ![h] = setLocale(engines[h], Str(locale))]
    /\ last' = Call("setLocale", h, Str(locale), Undefined)
    /\ lastSet' = Str(locale)
    /\ twice' = FALSE
    /\ UNCHANGED <<options, key, params, parts, orig, returned, registered>>
    /\ UNCHANGED <<defineVars, typeVars, legacyVars, isoVars, reactVars, viewVars>>

AddModule(h, module) ==
    /\ engines' = addModule(engines, h, module).heap
    /\ returned' = addModule(engines, h, module).ret
    /\ last' = Call("addModule", h, module, Undefined)
    /\ twice' = (last = Call("addModule", h, module, Undefined))
    /\ registered' = {m \in registered : Get(m, S_namespace) # Get(module, S_namespace)}
                         \cup {module}
    /\ UNCHANGED <<options, key, params, parts, lastSet, orig>>
    /\ UNCHANGED <<defineVars, typeVars, legacyVars, isoVars, reactVars, viewVars>>

Next ==
    \/ \E h \in Handles : T(h)
    \/ \E h \in Handles : GetLocale(h)
    \/ \E h \in Handles : GetLocales(h)
    \/ \E h \in Handles, locale \in LocaleIds : SetLocale(h, locale)
    \/ \E h \in Handles, module \in ModuleUniverse : AddModule(h, module)

Spec == Init /\ [][Next]_vars

\* Two engines created from one options object, each called in any order.
\* A write to modules reaches every holder of the object written.
InitIsolation ==
    /\ options \in OptionsUniverse
    /\ engines = <<createI18n(options), createI18n(options)>>
    /\ key \in ShownKeys
    /\ params = Undefined
    /\ parts = <<>>
    /\ last = NoCall
    /\ lastSet = Undefined
    /\ orig = 1
    /\ returned = 0
    /\ twice = FALSE
    /\ registered = {}
    /\ argNamespace = <<>>
    /\ argReference = FALSE
    /\ argTranslations = Obj(<<>>)
    /\ warned = <<>>
    /\ argModules = <<>>
    /\ derived = {}
    /\ argLocale = <<>>
    /\ instance = 1
    /\ loadedNamespaces = {}
    /\ pending = <<>>
    /\ addLog = <<>>
    /\ binding = "none"
    /\ localeState = Undefined
    /\ nextLocale = Undefined
    /\ renderDue = FALSE
    /\ shown = Undefined
    /\ callerModules = options.modules
    /\ modulesId = <<SpreadObject(1), SpreadObject(2)>>

IsoT(h) ==
    /\ last' = Call("t", h, Str(key), t(engines[h], key, params))
    /\ UNCHANGED <<coreVars, defineVars, typeVars, legacyVars, isoVars, reactVars, viewVars>>

IsoSetLocale(h, locale) ==
    /\ engines' = [engines EXCEPT ![h] = setLocale(engines[h], Str(locale))]
    /\ last' = Call("setLocale", h, Str(locale), Undefined)
    /\ UNCHANGED <<options, key, params, parts, lastSet, orig, returned, twice,
                   registered, defineVars, typeVars, legacyVars, isoVars, reactVars,
                   viewVars>>

IsoAddModule(h, module) ==
    /\ LET written == addModule(engines, h, module).heap
           modules == written[h].modules
       IN  /\ engines' = [g \in DOMAIN written |->
                             IF modulesId[g] = modulesId[h]
                             THEN [written[g] EXCEPT !.modules = modules]
                             ELSE written[g]]
           /\ callerModules' = IF modulesId[h] = 0 THEN modules ELSE callerModules
    /\ last' = Call("addModule", h, module, Undefined)
    /\ UNCHANGED <<options, key, params, parts, lastSet, orig, returned, twice,
                   registered, defineVars, typeVars, legacyVars, modulesId, reactVars,
                   viewVars>>

NextIsolation ==
    \/ \E h \in DOMAIN engines : IsoT(h)
    \/ \E h \in DOMAIN engines, locale \in ViewLocales : IsoSetLocale(h, locale)
    \/ \E h \in DOMAIN engines, module \in ModuleUniverse : IsoAddModule(h, module)

SpecIsolation == InitIsolation /\ [][NextIsolation]_vars

\* interpolate as a pure function of a template and a params value
InitInterp ==
    /\ options \in {o \in OptionsUniverse : o.fallbackLocale = Undefined}
    /\ engines = <<createI18n(options)>>
    /\ key = <<>>
    /\ params \in InterpParamsUniverse
    /\ parts \in SeqsUpTo(PartUniverse, MaxParts)
    /\ last = NoCall
    /\ lastSet = Undefined
    /\ orig = 1
    /\ returned = 0
    /\ twice = FALSE
    /\ registered = {}
    /\ argNamespace = <<>>
    /\ argReference = FALSE
    /\ argTranslations = Obj(<<>>)
    /\ warned = <<>>
    /\ argModules = <<>>
    /\ derived = {}
    /\ argLocale = <<>>
    /\ instance = 1
    /\ loadedNamespaces = {}
    /\ pending = <<>>
    /\ addLog = <<>>
    /\ binding = "none"
    /\ localeState = Undefined
    /\ nextLocale = Undefined
    /\ renderDue = FALSE
    /\ shown = Undefined
    /\ callerModules = Undefined
    /\ modulesId = <<>>

Interpolate ==
    /\ last' = Call("interpolate", 0, Str(Render(parts)),
                    Str(interpolate(Render(parts), params)))
    /\ UNCHANGED <<coreVars, defineVars, typeVars, legacyVars, isoVars, reactVars, viewVars>>

NextInterp == Interpolate

SpecInterp == InitInterp /\ [][NextInterp]_vars

\* defineModule as a function of a namespace and a translations mapping;
\* warned holds the console.warn calls of the last construction.  The
\* Reference type argument is erased by the compiler, so the call cannot
\* read argReference; a translations mapping whose trees differ type-checks
\* against an explicit Reference with optional keys or an index signature.
InitDefine ==
    /\ options \in {o \in OptionsUniverse : o.fallbackLocale = Undefined}
    /\ engines = <<createI18n(options)>>
    /\ key = <<>>
    /\ params = Undefined
    /\ parts = <<>>
    /\ last = NoCall
    /\ lastSet = Undefined
    /\ orig = 1
    /\ returned = 0
    /\ twice = FALSE
    /\ registered = {}
    /\ argNamespace = N_a
    /\ argReference \in BOOLEAN
    /\ argTranslations \in TranslationsUniverse
    /\ warned = <<>>
    /\ argModules = <<>>
    /\ derived = {}
    /\ argLocale = <<>>
    /\ instance = 1
    /\ loadedNamespaces = {}
    /\ pending = <<>>
    /\ addLog = <<>>
    /\ binding = "none"
    /\ localeState = Undefined
    /\ nextLocale = Undefined
    /\ renderDue = FALSE
    /\ shown = Undefined
    /\ callerModules = Undefined
    /\ modulesId = <<>>

DefineModule ==
    /\ last' = Call("defineModule", 0, argTranslations,
                    defineModule(argNamespace, argTranslations).ret)
    /\ warned' = defineModule(argNamespace, argTranslations).warn
    /\ UNCHANGED <<coreVars, argNamespace, argTranslations, argReference, typeVars, legacyVars, isoVars, reactVars, viewVars>>

NextDefine == DefineModule

SpecDefine == InitDefine /\ [][NextDefine]_vars

\* Paths and ModuleKeys as functions of a module collection type
InitKeys ==
    /\ options \in {o \in OptionsUniverse : o.fallbackLocale = Undefined}
    /\ engines = <<createI18n(options)>>
    /\ key = <<>>
    /\ params = Undefined
    /\ parts = <<>>
    /\ last = NoCall
    /\ lastSet = Undefined
    /\ orig = 1
    /\ returned = 0
    /\ twice = FALSE
    /\ registered = {}
    /\ argNamespace = <<>>
    /\ argReference = FALSE
    /\ argTranslations = Obj(<<>>)
    /\ warned = <<>>
    /\ argModules \in ModulesTypeUniverse
    /\ derived = {}
    /\ argLocale = <<>>
    /\ instance = 1
    /\ loadedNamespaces = {}
    /\ pending = <<>>
    /\ addLog = <<>>
    /\ binding = "none"
    /\ localeState = Undefined
    /\ nextLocale = Undefined
    /\ renderDue = FALSE
    /\ shown = Undefined
    /\ callerModules = Undefined
    /\ modulesId = <<>>

DerivePaths(i) ==
    /\ last' = Call("Paths", 0, argModules[i].Reference, Undefined)
    /\ derived' = Paths(argModules[i].Reference)
    /\ UNCHANGED <<coreVars, defineVars, argModules, legacyVars, isoVars, reactVars, viewVars>>

DeriveModuleKeys ==
    /\ last' = Call("ModuleKeys", 0, Undefined, Undefined)
    /\ derived' = ModuleKeys(argModules)
    /\ UNCHANGED <<coreVars, defineVars, argModules, legacyVars, isoVars, reactVars, viewVars>>

NextKeys ==
    \/ \E i \in 1..Len(argModules) : DerivePaths(i)
    \/ DeriveModuleKeys

SpecKeys == InitKeys /\ [][NextKeys]_vars

\* The legacy t as a function of the translations given to createI18nLegacy,
\* a locale, a key and params
LegacyTranslationsUniverse == {Get(module, S_translations) : module \in ModuleUniverse}

InitLegacy ==
    /\ options \in {o \in OptionsUniverse : o.fallbackLocale = Undefined}
    /\ engines = <<createI18n(options)>>
    /\ key \in Keys
    /\ params \in ParamsUniverse
    /\ parts = <<>>
    /\ last = NoCall
    /\ lastSet = Undefined
    /\ orig = 1
    /\ returned = 0
    /\ twice = FALSE
    /\ registered = {}
    /\ argNamespace = <<>>
    /\ argReference = FALSE
    /\ argTranslations \in LegacyTranslationsUniverse
    /\ warned = <<>>
    /\ argModules = <<>>
    /\ derived = {}
    /\ argLocale \in LocaleIds
    /\ instance = 1
    /\ loadedNamespaces = {}
    /\ pending = <<>>
    /\ addLog = <<>>
    /\ binding = "none"
    /\ localeState = Undefined
    /\ nextLocale = Undefined
    /\ renderDue = FALSE
    /\ shown = Undefined
    /\ callerModules = Undefined
    /\ modulesId = <<>>

LegacyT ==
    /\ last' = Call("legacyT", 0, Str(key), legacyT(argTranslations, argLocale, key, params))
    /\ UNCHANGED <<coreVars, defineVars, typeVars, legacyVars, isoVars, reactVars, viewVars>>

NextLegacy == LegacyT

SpecLegacy == InitLegacy /\ [][NextLegacy]_vars

\* A mounted I18nProvider over the engine createI18n(options) returned.
\* RegisterModules is the call the effect of useTranslation(modules) makes
\* on mount and whenever modules changes; RunUpdater is React running the
\* oldest queued updater, twice in a row when it double-invokes updaters,
\* and scheduling a render when the updater returned another object than the
\* instance state it was given.
Mounted(b) ==
    /\ options \in OptionsUniverse
    /\ engines = <<createI18n(options)>>
    /\ key \in ShownKeys
    /\ params = Undefined
    /\ parts = <<>>
    /\ last = NoCall
    /\ lastSet = Undefined
    /\ orig = 1
    /\ returned = 0
    /\ twice = FALSE
    /\ registered = {}
    /\ argNamespace = <<>>
    /\ argReference = FALSE
    /\ argTranslations = Obj(<<>>)
    /\ warned = <<>>
    /\ argModules = <<>>
    /\ derived = {}
    /\ argLocale = <<>>
    /\ instance = orig
    /\ loadedNamespaces = {}
    /\ pending = <<>>
    /\ addLog = <<>>
    /\ binding = b
    /\ localeState = getLocale(engines[instance])
    /\ nextLocale = localeState
    /\ renderDue = FALSE
    /\ shown = t(engines[instance], key, params)
    /\ callerModules = Undefined
    /\ modulesId = <<>>

InitReact == Mounted("react")

RegisterModules(modules) ==
    /\ Len(pending) < MaxPending
    /\ pending' = IF ~ToBoolean(modules) THEN pending ELSE Append(pending, modules)
    /\ last' = Call("registerModules", 0, modules, Undefined)
    /\ UNCHANGED <<coreVars, defineVars, typeVars, legacyVars, isoVars,
                   instance, loadedNamespaces, addLog, viewVars>>

RunUpdater(double) ==
    /\ pending # <<>>
    /\ LET once == updater(engines, loadedNamespaces, addLog, instance, Head(pending))
           run == IF double
                  THEN updater(once.heap, once.loaded, once.log, instance, Head(pending))
                  ELSE once
       IN  /\ engines' = run.heap
           /\ loadedNamespaces' = run.loaded
           /\ addLog' = run.log
           /\ instance' = run.ret
           /\ renderDue' = (renderDue \/ run.ret # instance)
    /\ pending' = Tail(pending)
    /\ last' = Call("updater", instance, Head(pending), Undefined)
    /\ UNCHANGED <<options, key, params, parts, lastSet, orig, returned, twice,
                   registered, defineVars, typeVars, legacyVars, isoVars,
                   binding, localeState, nextLocale, shown>>

\* A component calls the setLocale of the provider's context value.  The
\* engine is written at once; the provider's locale state is queued and
\* committed by the next render, and React schedules no render when the
\* queue is empty and the value equals the committed state.
ReactSetLocale(newLocale) ==
    /\ binding = "react"
    /\ LET r == reactSetLocale(engines, instance, Str(newLocale))
       IN  /\ engines' = r.heap
           /\ nextLocale' = r.state
           /\ renderDue' = (renderDue \/ r.state # localeState)
    /\ lastSet' = Str(newLocale)
    /\ last' = Call("setLocale", instance, Str(newLocale), Undefined)
    /\ UNCHANGED <<options, key, params, parts, orig, returned, twice, registered,
                   defineVars, typeVars, legacyVars, isoVars, reactVars,
                   binding, localeState, shown>>

\* A component calls the setLocale that useI18n() of the Vue plugin returns:
\* the engine and the reactive state are both written before it returns, and
\* the components that read the state are scheduled to render again.
VueSetLocale(locale) ==
    /\ binding = "vue"
    /\ LET r == vueSetLocale(engines, instance, Str(locale))
       IN  /\ engines' = r.heap
           /\ localeState' = r.state
           /\ nextLocale' = r.state
           /\ renderDue' = (renderDue \/ r.state # localeState)
    /\ lastSet' = Str(locale)
    /\ last' = Call("setLocale", instance, Str(locale), Undefined)
    /\ UNCHANGED <<options, key, params, parts, orig, returned, twice, registered,
                   defineVars, typeVars, legacyVars, isoVars, reactVars,
                   binding, shown>>

\* The binding renders again after a state change: every queued updater has
\* run, the provider commits its locale state, and the consuming component
\* calls the t of the instance the binding now holds.
Rerender ==
    /\ renderDue
    /\ pending = <<>>
    /\ localeState' = nextLocale
    /\ renderDue' = FALSE
    /\ shown' = t(engines[instance], key, params)
    /\ last' = Call("render", instance, Undefined, shown')
    /\ UNCHANGED <<coreVars, defineVars, typeVars, legacyVars, isoVars, reactVars,
                   binding, nextLocale>>

NextReact ==
    \/ \E modules \in ModsUniverse : RegisterModules(modules)
    \/ \E double \in BOOLEAN : RunUpdater(double)

SpecReact == InitReact /\ [][NextReact]_vars

\* The provider with its consumers: components register modules and switch
\* the locale, React runs the queued updaters and renders.  React runs every
\* queued updater and every scheduled render, hence the weak fairness of
\* those two steps; nothing obliges a component to call registerModules or
\* setLocale.
NextProvider ==
    \/ \E modules \in ViewMods : RegisterModules(modules)
    \/ \E double \in BOOLEAN : RunUpdater(double)
    \/ \E newLocale \in ViewLocales : ReactSetLocale(newLocale)
    \/ Rerender

SpecProvider ==
    /\ InitReact
    /\ [][NextProvider]_vars
    /\ WF_vars(\E double \in BOOLEAN : RunUpdater(double))
    /\ WF_vars(Rerender)

\* Either binding mounted over one engine, with components that switch the
\* locale through the binding.
InitBinding == \E b \in {"react", "vue"} : Mounted(b)

NextBinding ==
    \/ \E newLocale \in LocaleIds : ReactSetLocale(newLocale)
    \/ \E locale \in LocaleIds : VueSetLocale(locale)
    \/ Rerender

SpecBinding == InitBinding /\ [][NextBinding]_vars

(***************************************************************************)
(* Vocabulary of the properties: the namespace and path of a key, and the  *)
(* lookup of a path through own keys only.                                 *)
(***************************************************************************)
HasDot(k) == IndexOf(k, ".") # -1

KeyNs(k) == Slice(k, 0, IndexOf(k, "."))

KeyPath(k) == Slice(k, IndexOf(k, ".") + 1, Len(k))

NamespaceOf(module) == Get(module, S_namespace).s

Registered(engine, ns) == HasOwn(engine.modules, ns)

RECURSIVE OwnWalk(_, _, _)
OwnWalk(cur, segs, i) ==
    IF i > Len(segs) THEN cur
    ELSE IF ~HasOwn(cur, segs[i]) THEN Undefined
    ELSE OwnWalk(Get(cur, segs[i]), segs, i + 1)

OwnLookup(tree, path) ==
    IF path = <<>> THEN Undefined ELSE OwnWalk(tree, Split(path, "."), 1)

OwnTree(module, locale) ==
    IF HasOwn(Get(module, S_translations), locale.s)
    THEN Get(Get(module, S_translations), locale.s)
    ELSE Undefined

HasPlaceholder(s) == \E i \in 1..Len(s) : MatchEnd(s, i) # 0

RECURSIVE Blanked(_, _)
Blanked(s, i) ==
    IF i > Len(s) THEN <<>>
    ELSE IF MatchEnd(s, i) = 0 THEN <<s[i]>> \o Blanked(s, i + 1)
    ELSE Blanked(s, MatchEnd(s, i) + 1)

FallbackApplies(engine) ==
    engine.fallbackLocale.k = "string" /\ engine.fallbackLocale # engine.currentLocale

\* The string template the key leads to: under the current locale through
\* own keys, or under the fallback locale when the current-locale walk of
\* the code finds nothing.  Undefined when there is none.
TemplateOf(engine, k) ==
    IF ~HasDot(k) \/ ~Registered(engine, KeyNs(k)) THEN Undefined
    ELSE LET module == Get(engine.modules, KeyNs(k))
             v1 == OwnLookup(OwnTree(module, engine.currentLocale), KeyPath(k))
             c1 == getFromPath(Get(Get(module, S_translations), engine.currentLocale.s),
                               KeyPath(k))
             v2 == OwnLookup(OwnTree(module, engine.fallbackLocale), KeyPath(k))
         IN  IF v1.k = "string" THEN v1
             ELSE IF IsNullish(c1) /\ FallbackApplies(engine) /\ v2.k = "string" THEN v2
             ELSE Undefined

\* What the caller sees for a value found in a tree.
Rendered(v, ps) == IF v.k = "string" THEN Str(interpolate(v.s, ps)) ELSE JsString(v)

(***************************************************************************)
(* C1: t(key) with no params replaces every placeholder of the template    *)
(* the key resolves to with the empty string.                              *)
(***************************************************************************)
C1_Blanked ==
    (/\ last.op = "t"
     /\ params = Undefined
     /\ TemplateOf(engines[last.self], key).k = "string")
    => last.result = Str(Blanked(TemplateOf(engines[last.self], key).s, 1))

(***************************************************************************)
(* C2: a key whose first segment is the namespace of a module passed in    *)
(* options.modules resolves against that module, whatever property name   *)
(* the module was passed under.                                            *)
(***************************************************************************)
C2_ResolvesByNamespace ==
    (/\ last.op = "t"
     /\ HasDot(key)
     /\ engines[last.self].modules = createI18n(options).modules)
    => \A i \in 1..Len(options.modules.p) :
          NamespaceOf(options.modules.p[i].val) = KeyNs(key)
          => last.result = Resolve(engines[last.self], options.modules.p[i].val,
                                   key, KeyPath(key), params)

(***************************************************************************)
(* C3: with a fallback locale L2 different from the current locale L1, a   *)
(* key whose path is absent under L1 and leads to a string under L2 in the *)
(* same module yields the L2 string, interpolated.                         *)
(***************************************************************************)
C3_FallbackValue ==
    LET e == engines[last.self]
        module == Get(e.modules, KeyNs(key))
    IN  (/\ last.op = "t"
         /\ HasDot(key)
         /\ Registered(e, KeyNs(key))
         /\ FallbackApplies(e)
         /\ OwnLookup(OwnTree(module, e.currentLocale), KeyPath(key)) = Undefined
         /\ OwnLookup(OwnTree(module, e.fallbackLocale), KeyPath(key)).k = "string")
        => last.result =
             Str(interpolate(OwnLookup(OwnTree(module, e.fallbackLocale), KeyPath(key)).s,
                             params))

(***************************************************************************)
(* C4: when the namespace is registered and the path is found neither      *)
(* under the current locale nor under an applicable fallback locale, t     *)
(* returns the key unchanged.                                              *)
(***************************************************************************)
C4_MissingPathEchoesKey ==
    LET e == engines[last.self]
        module == Get(e.modules, KeyNs(key))
    IN  (/\ last.op = "t"
         /\ HasDot(key)
         /\ Registered(e, KeyNs(key))
         /\ OwnLookup(OwnTree(module, e.currentLocale), KeyPath(key)) = Undefined
         /\ \/ ~FallbackApplies(e)
            \/ OwnLookup(OwnTree(module, e.fallbackLocale), KeyPath(key)) = Undefined)
        => last.result = Str(key)

(***************************************************************************)
(* C5: with a params object, every placeholder is replaced by the string   *)
(* form of its entry in params, or by the empty string when params has no  *)
(* entry of that name; text outside placeholders is unchanged.             *)
(***************************************************************************)
ExpectedPart(part, ps) ==
    IF part.kind = "text" THEN part.s
    ELSE IF HasOwn(ps, part.s) THEN JsString(Get(ps, part.s)).s
    ELSE <<>>

RECURSIVE Expected(_, _)
Expected(pts, ps) ==
    IF pts = <<>> THEN <<>> ELSE ExpectedPart(Head(pts), ps) \o Expected(Tail(pts), ps)

C5_PlaceholdersReplaced ==
    (last.op = "interpolate" /\ params.k = "object")
    => last.result = Str(Expected(parts, params))

(***************************************************************************)
(* C6: t returns the key unchanged when it has no '.', and when the text   *)
(* before the first '.' is not a registered namespace.                     *)
(***************************************************************************)
C6_UnknownNamespaceEchoesKey ==
    (/\ last.op = "t"
     /\ \/ ~HasDot(key)
        \/ ~Registered(engines[last.self], KeyNs(key)))
    => last.result = Str(key)

(***************************************************************************)
(* C7: t never throws; it returns a string for every key, params, locale   *)
(* and module set.                                                         *)
(***************************************************************************)
C7_NeverThrows == last.op = "t" => last.result.k = "string"

(***************************************************************************)
(* C8: getLocale() is options.locale before any setLocale and the argument *)
(* of the last setLocale afterwards, whether or not a module has data for  *)
(* it, and t resolves against that locale first.                           *)
(***************************************************************************)
ExpectedLocale == IF lastSet = Undefined THEN options.locale ELSE lastSet

C8_SetLocaleUnconditional ==
    /\ \A h \in Handles : getLocale(engines[h]) = ExpectedLocale
    /\ last.op = "setLocale" => getLocale(engines[last.self]) = last.arg
    /\ last.op = "getLocale" => last.result = ExpectedLocale
    /\ (/\ last.op = "t"
        /\ HasDot(key)
        /\ Registered(engines[last.self], KeyNs(key))
        /\ ~IsNullish(OwnLookup(OwnTree(Get(engines[last.self].modules, KeyNs(key)),
                                        ExpectedLocale), KeyPath(key))))
       => last.result =
            Rendered(OwnLookup(OwnTree(Get(engines[last.self].modules, KeyNs(key)),
                                       ExpectedLocale), KeyPath(key)), params)

C8_Witness ==
    /\ last.op = "t"
    /\ lastSet = Str(L_de)
    /\ options.locale = Str(L_en)
    /\ options.fallbackLocale = Undefined
    /\ key = Join(<<N_a, N_a>>, ".")
    /\ last.result = Str(key)

C10_LastRegistrationWins ==
    [][last'.op = "addModule" =>
          LET h == last'.self
              m == last'.arg
          IN  /\ getLocale(engines'[h]) = getLocale(engines[h])
              /\ (HasDot(key) /\ KeyNs(key) = NamespaceOf(m))
                 => t(engines'[h], key, params) =
                      Resolve(engines'[h], m, key, KeyPath(key), params)
              /\ (HasDot(key) /\ KeyNs(key) # NamespaceOf(m))
                 => t(engines'[h], key, params) = t(engines[h], key, params)]_vars

C10_Witness ==
    /\ last.op = "addModule"
    /\ last.arg = ModA2
    /\ Get(options.modules, N_a) = ModA
    /\ Get(engines[orig].modules, N_a) = ModA2
    /\ key = Join(<<N_a, N_a>>, ".")
    /\ t(engines[orig], key, params) = Str(<<"H","e","y">>)

(***************************************************************************)
(* C11: a second addModule with the module of the call before it, on the   *)
(* same engine, leaves t(key, params), getLocale() and the set of          *)
(* getLocales() as they were after the first call.                         *)
(***************************************************************************)
ElemSet(arr) == {arr.p[i].val : i \in 1..Len(arr.p)}

C11_AddModuleIdempotent ==
    [][twice' =>
          LET h == last'.self
          IN  /\ t(engines'[h], key, params) = t(engines[h], key, params)
              /\ getLocale(engines'[h]) = getLocale(engines[h])
              /\ ElemSet(getLocales(engines'[h])) = ElemSet(getLocales(engines[h]))]_vars

C11_Witness ==
    /\ twice
    /\ last.arg = ModB
    /\ ~HasOwn(options.modules, N_b)
    /\ Get(engines[orig].modules, N_b) = ModB
    /\ key = Join(<<N_b, N_a>>, ".")
    /\ t(engines[orig], key, params) = Str(<<"O","K">>)

(***************************************************************************)
(* C12: getLocales() returns, without duplicates, exactly the locale       *)
(* identifiers of the translations of the modules registered so far, a     *)
(* module replaced by a later one of its namespace not counting.           *)
(***************************************************************************)
LocalesOf(module) ==
    {Str(l) : l \in {Get(module, S_translations).p[i].key :
                        i \in 1..Len(Get(module, S_translations).p)}}

C12_LocalesAreUnion ==
    last.op = "getLocales" =>
        /\ ElemSet(last.result) = UNION {LocalesOf(m) : m \in registered}
        /\ Cardinality(ElemSet(last.result)) = Len(last.result.p)

(***************************************************************************)
(* C16: when the value at the key's path under the current locale is       *)
(* neither a string nor null (a number, a boolean, an array, a nested      *)
(* object), t returns the string form of that value: no interpolation, no  *)
(* fallback.                                                               *)
(***************************************************************************)
C16_NonStringStringified ==
    LET e == engines[last.self]
        v == OwnLookup(OwnTree(Get(e.modules, KeyNs(key)), e.currentLocale), KeyPath(key))
    IN  (/\ last.op = "t"
         /\ HasDot(key)
         /\ Registered(e, KeyNs(key))
         /\ ~IsNullish(v)
         /\ v.k # "string")
        => /\ last.result.k = "string"
           /\ last.result = JsString(v)

(***************************************************************************)
(* C17: Paths yields leaf paths only: a key K whose value is a nested tree *)
(* is not itself in the set while K.<subpath> is, for every path derived   *)
(* from the nested tree; a key K whose value is a primitive or an array is *)
(* in the set and nothing beneath it is.                                   *)
(***************************************************************************)
Beneath(K, paths) ==
    {q \in paths : Len(q) > Len(K) + 1 /\ SubSeq(q, 1, Len(K) + 1) = K \o <<".">>}

C17_LeafPathsOnly ==
    last.op = "Paths" =>
        \A i \in 1..Len(last.arg.p) :
            LET K == last.arg.p[i].key
                V == last.arg.p[i].val
            IN  IF V.k = "object"
                THEN /\ K \notin derived
                     /\ \A sub \in Paths(V) : K \o <<".">> \o sub \in derived
                ELSE /\ K \in derived
                     /\ Beneath(K, derived) = {}

(***************************************************************************)
(* C18: ModuleKeys of a module collection is exactly the set of            *)
(* "<namespace>.<path>" for every module of the collection, its own        *)
(* namespace and every path derived from its reference shape.              *)
(***************************************************************************)
C18_ModuleKeysQualified ==
    last.op = "ModuleKeys" =>
        /\ \A i \in 1..Len(argModules) : \A path \in Paths(argModules[i].Reference) :
              argModules[i].NS \o <<".">> \o path \in derived
        /\ \A k \in derived : \E i \in 1..Len(argModules) :
              /\ KeyNs(k) = argModules[i].NS
              /\ KeyPath(k) \in Paths(argModules[i].Reference)

C18_Witness ==
    /\ last.op = "ModuleKeys"
    /\ Len(argModules) = 2
    /\ argModules[1] = ModuleType(N_a, N_b, Tree_noB)
    /\ argModules[2] = ModuleType(N_b, N_a, Tree_leafB)
    /\ derived = {<<"b", ".", "a">>, <<"a", ".", "a">>, <<"a", ".", "b">>}

(***************************************************************************)
(* C19: the legacy t(L, k, params) returns what the module engine returns  *)
(* for "n." \o k with current locale L and no fallback over a module n     *)
(* with the same trees, whenever the path k is found under L, and returns  *)
(* k itself when it is not, whatever the other locales hold.               *)
(***************************************************************************)
LegacyTree == IF HasOwn(argTranslations, argLocale) THEN Get(argTranslations, argLocale)
              ELSE Undefined

EngineOver(trans, locale) ==
    createI18n([locale |-> Str(locale), fallbackLocale |-> Undefined,
                modules |-> Obj(<<Prop(N_n, Module(N_n, trans))>>)])

C19_LegacyRefinesEngine ==
    last.op = "legacyT" =>
        IF IsNullish(OwnLookup(LegacyTree, key))
        THEN last.result = Str(key)
        ELSE last.result = t(EngineOver(argTranslations, argLocale),
                             N_n \o <<".">> \o key, params)

(***************************************************************************)
(* C20: the provider passes at most one module of each namespace to the    *)
(* engine's addModule, whatever modules objects are registered and however *)
(* often; a module whose namespace was registered before is skipped, so    *)
(* the engine keeps the first module registered for the namespace.         *)
(***************************************************************************)
C20_RegisteredOncePerNamespace ==
    /\ \A i, j \in 1..Len(addLog) :
          NamespaceOf(addLog[i]) = NamespaceOf(addLog[j]) => i = j
    /\ \A i \in 1..Len(addLog) :
          /\ NamespaceOf(addLog[i]) \in loadedNamespaces
          /\ Get(engines[instance].modules, NamespaceOf(addLog[i])) = addLog[i]
    /\ \A ns \in loadedNamespaces : \E i \in 1..Len(addLog) : NamespaceOf(addLog[i]) = ns

C20_Witness ==
    /\ last.op = "updater"
    /\ last.arg = Obj(<<Prop(N_a, ModA)>>)
    /\ addLog = <<ModA2, ModB>>
    /\ Get(engines[instance].modules, N_a) = ModA2
    /\ Get(options.modules, N_a) = ModA

(***************************************************************************)
(* Vocabulary of the validator's properties: the trees passed, their own   *)
(* key sets, structural identity and the set of divergences of two trees.  *)
(***************************************************************************)
ArgTrees == ObjectValues(argTranslations)

OwnKeys(v) == IF v.k \in {"object", "array"} THEN {v.p[i].key : i \in 1..Len(v.p)} ELSE {}

RECURSIVE SameShape(_, _)
SameShape(v1, v2) ==
    IF v1.k = "object" /\ v2.k = "object"
    THEN /\ OwnKeys(v1) = OwnKeys(v2)
         /\ \A k \in OwnKeys(v1) : SameShape(Get(v1, k), Get(v2, k))
    ELSE v1.k # "object" /\ v2.k # "object"

RECURSIVE Divergences(_, _, _)
Divergences(ref, cmp, path) ==
    {S_missing \o path \o k : k \in OwnKeys(ref) \ OwnKeys(cmp)}
    \cup {S_extra \o path \o k : k \in OwnKeys(cmp) \ OwnKeys(ref)}
    \cup UNION {Divergences(Get(ref, k), Get(cmp, k), path \o k \o <<".">>) :
                  k \in {j \in OwnKeys(ref) \cap OwnKeys(cmp) :
                            Get(ref, j).k = "object" /\ Get(cmp, j).k = "object"}}

SeqSet(seq) == {seq[i] : i \in 1..Len(seq)}

(***************************************************************************)
(* C13: defineModule with two or more locale trees that have the same key  *)
(* sets at every nested level emits no warning.                            *)
(***************************************************************************)
C13_IdenticalTreesNoWarning ==
    (/\ last.op = "defineModule"
     /\ Len(ArgTrees) >= 2
     /\ \A i, j \in 1..Len(ArgTrees) : SameShape(ArgTrees[i], ArgTrees[j]))
    => warned = <<>>

C13_Witness ==
    /\ last.op = "defineModule"
    /\ ArgTrees = <<Tree_base, Tree_reordered, Tree_base>>
    /\ warned = <<>>

(***************************************************************************)
(* C14: the errors of a warning are exactly, each once, the entries        *)
(* "Missing key in locale: <path>" for the keys of the reference tree that *)
(* the compared tree lacks and "Extra key in locale: <path>" for the keys  *)
(* of the compared tree that the reference lacks, at the top level and at  *)
(* every level reached through keys that are non-null non-array objects on *)
(* both sides, <path> being the full dotted path; a locale compared        *)
(* without a warning has no such entry.                                    *)
(***************************************************************************)
C14_ExactDivergences ==
    last.op = "defineModule" =>
        /\ \A w \in SeqSet(warned) :
              /\ SeqSet(w.errors) = Divergences(Get(argTranslations, w.referenceLocale),
                                                Get(argTranslations, w.currentLocale), <<>>)
              /\ Cardinality(SeqSet(w.errors)) = Len(w.errors)
        /\ (warned = <<>> /\ Len(ArgTrees) >= 2)
           => \A i \in 2..Len(ArgTrees) : Divergences(ArgTrees[1], ArgTrees[i], <<>>) = {}

\* One key missing at b.b.a gives that entry alone; b an object on one side
\* and a leaf on the other gives none.
C14_Witness ==
    /\ last.op = "defineModule"
    /\ ArgTrees = <<Tree_base, Tree_leafB, Tree_noBBA>>
    /\ Len(warned) = 1
    /\ warned[1].currentLocale = L_de
    /\ warned[1].errors = <<S_missing \o <<"b", ".", "b", ".", "a">> >>

(***************************************************************************)
(* C15: defineModule(namespace)(translations) returns, with or without a   *)
(* warning, the module of the given namespace whose translations is the    *)
(* mapping passed in, unmodified.                                          *)
(***************************************************************************)
C15_WarningIsAdvisory ==
    last.op = "defineModule" =>
        /\ last.result.k = "object"
        /\ ObjectKeys(last.result) = <<S_namespace, S_translations>>
        /\ Get(last.result, S_namespace) = Str(argNamespace)
        /\ Get(last.result, S_translations) = argTranslations
        /\ last.arg = argTranslations

C15_Witness ==
    /\ last.op = "defineModule"
    /\ ArgTrees = <<Tree_base, Tree_extraC>>
    /\ Len(warned) = 1
    /\ Len(warned[1].errors) = 3
    /\ Get(last.result, S_translations) = argTranslations

(***************************************************************************)
(* Vocabulary of the bindings' properties: the engine the binding holds,   *)
(* and that engine as it would be under the locale the binding exposes.    *)
(***************************************************************************)
Held == engines[instance]

HeldUnderExposed == [Held EXCEPT !.currentLocale = localeState]

NoFallback(engine) == [engine EXCEPT !.fallbackLocale = Undefined]

HeldAt(engine, k, locale) ==
    OwnLookup(OwnTree(Get(engine.modules, KeyNs(k)), locale), KeyPath(k))

\* C22: when the current locale's tree holds a non-null value at the key's
\* path, t returns the result for that value whatever the fallback locale
\* holds; and the fallback locale changes the result of t only when the
\* walk under the current locale found nothing and a fallback locale is
\* configured and differs from the current locale.
C22_FallbackOnlyWhenNotFound ==
    (/\ last.op = "t"
     /\ HasDot(key)
     /\ Registered(engines[last.self], KeyNs(key)))
    => LET engine == engines[last.self]
           v1 == HeldAt(engine, key, engine.currentLocale)
       IN  /\ ~IsNullish(v1) => last.result = Rendered(v1, params)
           /\ last.result # t(NoFallback(engine), key, params)
                  => /\ IsNullish(v1)
                     /\ FallbackApplies(engine)

C22_Witness ==
    /\ last.op = "t"
    /\ key = <<"b", ".", "a">>
    /\ engines[last.self].currentLocale = Str(L_fr)
    /\ FallbackApplies(engines[last.self])
    /\ HeldAt(engines[last.self], key, Str(L_fr)) = Str(T_yo)
    /\ HeldAt(engines[last.self], key, Str(L_en)) = Str(T_hi)
    /\ last.result = Rendered(Str(T_yo), params)

\* C23: the path walk yields undefined whenever a segment is no own key of
\* the tree or the walk reaches a string, number or boolean before the last
\* segment; t then asks the fallback locale and, when the path is missing
\* there too, returns the key.
C23_WalkFindsOwnKeysOnly ==
    (/\ last.op = "t"
     /\ HasDot(key)
     /\ Registered(engines[last.self], KeyNs(key)))
    => LET engine == engines[last.self]
           module == Get(engine.modules, KeyNs(key))
           tree1 == OwnTree(module, engine.currentLocale)
           tree2 == OwnTree(module, engine.fallbackLocale)
       IN  HeldAt(engine, key, engine.currentLocale) = Undefined
           => /\ getFromPath(tree1, KeyPath(key)) = Undefined
              /\ (FallbackApplies(engine)
                   /\ HeldAt(engine, key, engine.fallbackLocale) = Undefined)
                  => getFromPath(tree2, KeyPath(key)) = Undefined
              /\ (FallbackApplies(engine)
                   => HeldAt(engine, key, engine.fallbackLocale) = Undefined)
                  => last.result = Str(key)

\* C24: a module constructed with a single locale, or with an explicit
\* reference type, emits no warning.
C24_CheckOnlyWhenInferred ==
    (/\ last.op = "defineModule"
     /\ \/ Len(ObjectKeys(argTranslations)) < 2
        \/ argReference)
    => warned = <<>>

ArgLocales == ObjectKeys(argTranslations)

Diverges(i) == Divergences(ArgTrees[1], ArgTrees[i], <<>>) # {}

\* C25: a construction emits at most one warning; it emits one exactly when
\* some locale after the first diverges from the first, and the warning
\* names the first-declared locale as the reference and, as the compared
\* locale, the first locale in declaration order that diverges from it,
\* with the divergences of that locale only.
C25_FirstDivergingLocaleOnly ==
    last.op = "defineModule" =>
        /\ Len(warned) <= 1
        /\ Len(warned) = 1 <=> \E i \in 2..Len(ArgLocales) : Diverges(i)
        /\ Len(warned) = 1 =>
              \E i \in 2..Len(ArgLocales) :
                  /\ warned[1].referenceLocale = ArgLocales[1]
                  /\ warned[1].currentLocale = ArgLocales[i]
                  /\ Diverges(i)
                  /\ \A j \in 2..(i - 1) : ~Diverges(j)
                  /\ SeqSet(warned[1].errors)
                        = Divergences(ArgTrees[1], ArgTrees[i], <<>>)

\* The second and the third locale both diverge; the warning is about the
\* second.
C25_Witness ==
    /\ last.op = "defineModule"
    /\ ArgTrees = <<Tree_base, Tree_noB, Tree_extraBBC>>
    /\ Len(warned) = 1
    /\ warned[1].referenceLocale = ArgLocales[1]
    /\ warned[1].currentLocale = ArgLocales[2]
    /\ warned[1].errors = <<S_missing \o <<"b">> >>

(***************************************************************************)
(* Order of strings as Array.prototype.sort orders them by default: by     *)
(* code unit, a proper prefix first.  Alphabet lists the characters of the *)
(* divergence descriptions in code-unit order.                             *)
(***************************************************************************)
Alphabet ==
    <<" ", ".", ":", "E", "M", "a", "b", "c", "d", "e", "g", "i", "k", "l",
      "n", "o", "r", "s", "t", "x", "y">>

CodeUnit(c) == CHOOSE i \in 1..Len(Alphabet) : Alphabet[i] = c

RECURSIVE StrLess(_, _)
StrLess(s1, s2) ==
    IF s2 = <<>> THEN FALSE
    ELSE IF s1 = <<>> THEN TRUE
    ELSE IF Head(s1) = Head(s2) THEN StrLess(Tail(s1), Tail(s2))
    ELSE CodeUnit(Head(s1)) < CodeUnit(Head(s2))

Sorted(strs) == \A i, j \in 1..Len(strs) : i < j => ~StrLess(strs[j], strs[i])

\* C26: the divergence descriptions of an emitted warning are in sorted
\* order.
C26_ErrorsSorted ==
    last.op = "defineModule" => \A w \in SeqSet(warned) : Sorted(w.errors)

\* C27: t, getLocale and getLocales leave every engine as it was; setLocale
\* changes the current locale of the engine it is called on and nothing
\* else, so the module set and getLocales() are unchanged; every change of
\* an engine is made by setLocale or addModule; and the fallback locale of
\* an engine is, after every call, the one given to createI18n.
C27_OnlySetLocaleAndAddModuleWrite ==
    [][ /\ last'.op \in {"t", "getLocale", "getLocales"} => engines' = engines
        /\ last'.op = "setLocale" =>
              \A h \in DOMAIN engines :
                  /\ engines'[h].modules = engines[h].modules
                  /\ getLocales(engines'[h]) = getLocales(engines[h])
                  /\ h # last'.self => engines'[h] = engines[h]
        /\ engines' # engines => last'.op \in {"setLocale", "addModule"}
        /\ \A h \in DOMAIN engines' :
              engines'[h].fallbackLocale = createI18n(options).fallbackLocale
      ]_vars

\* After an addModule and a setLocale that changed the engine, the fallback
\* locale is still the configured one.
C27_Witness ==
    /\ last.op = "setLocale"
    /\ engines[last.self].currentLocale # options.locale
    /\ engines[last.self].modules # createI18n(options).modules
    /\ options.fallbackLocale = Str(L_en)
    /\ engines[last.self].fallbackLocale = Str(L_en)

\* C28: addModule or setLocale on one engine changes neither the caller's
\* options.modules object nor the locale, the module set or the result of
\* t of the other engine created from the same options object.
C28_EnginesIsolated ==
    [][ /\ callerModules' = options.modules
        /\ last'.op \in {"addModule", "setLocale"} =>
              \A g \in DOMAIN engines \ {last'.self} :
                  /\ engines'[g] = engines[g]
                  /\ t(engines'[g], key, params) = t(engines[g], key, params)
      ]_vars

\* One engine has switched to fr and replaced module a; the other, created
\* from the same options, still renders under en from the module passed in.
C28_Witness ==
    /\ last.op = "t"
    /\ last.self = 2
    /\ key = <<"a", ".", "a">>
    /\ options.locale = Str(L_en)
    /\ engines[1].currentLocale = Str(L_fr)
    /\ Get(engines[1].modules, N_a) = ModA2
    /\ Get(engines[1].modules, N_b) = ModB
    /\ engines[2] = createI18n(options)
    /\ callerModules = Obj(<<Prop(N_a, ModA)>>)
    /\ last.result = Str(T_hi)

\* C29: when the key's path ends at a null leaf under the current locale, t
\* returns what the fallback locale's tree gives when a fallback locale is
\* configured and differs (the key when that tree has nothing either), and
\* the key otherwise; it never returns "null".
C29_NullLeafNotFound ==
    (/\ last.op = "t"
     /\ HasDot(key)
     /\ Registered(engines[last.self], KeyNs(key))
     /\ HeldAt(engines[last.self], key, engines[last.self].currentLocale) = Null)
    => LET engine == engines[last.self]
           module == Get(engine.modules, KeyNs(key))
           c2 == getFromPath(OwnTree(module, engine.fallbackLocale), KeyPath(key))
       IN  /\ last.result # Str(<<"n", "u", "l", "l">>)
           /\ last.result = IF FallbackApplies(engine) /\ ~IsNullish(c2)
                            THEN Rendered(c2, params)
                            ELSE Str(key)

\* b.a is null under de: with fallback en t gives the en text
C29_Witness ==
    /\ last.op = "t"
    /\ key = <<"b", ".", "a">>
    /\ engines[last.self].currentLocale = Str(L_de)
    /\ engines[last.self].fallbackLocale = Str(L_en)
    /\ HeldAt(engines[last.self], key, Str(L_de)) = Null
    /\ last.result = Str(<<"O", "K">>)

\* C30: once an updater of registerModules has registered the namespace of
\* the key a component renders, the component is eventually rendered again
\* and shows what t of the provider's instance returns for the key.
C30_RegistrationRerenders ==
    (last.op = "updater" /\ KeyNs(key) \in loadedNamespaces)
        ~> (shown = t(Held, key, params))

====
